---- MODULE Spec2Model ----
(***************************************************************************)
(* RepoRover: the chat session (chat_rover.py, class ChatRover) and the    *)
(* ChromaDB repository handler (repohandler.py, class GitHubRepoHandler).  *)
(*                                                                         *)
(* Two state machines share this module.  SpecChat is one ChatRover        *)
(* object driven by its caller: construction, run_chat turns (a generator, *)
(* advanced chunk by chunk), direct update_history and code_summary calls. *)
(* SpecHandler is one GitHubRepoHandler whose updates are advanced one     *)
(* ChromaDB call at a time while queries arrive in between.                *)
(*                                                                         *)
(* A Python str is a record [kind |-> "str", s, tok]: s is its sequence of *)
(* characters (or of opaque parts, for texts whose characters play no      *)
(* role) and tok the length of self.encoding.encode(text), the tokenizer   *)
(* being a deterministic function outside the repository.  A Python list   *)
(* is [kind |-> "list", items]; None is [kind |-> "none"].                 *)
(***************************************************************************)
EXTENDS Integers, Sequences, FiniteSets, TLC

VARIABLES
    \* ---- ChatRover ----
    scraper,               \* the gitHubScraper collaborator: readme, files, raw contents
    readme_vector,         \* self.readme_vector: documents in insertion order
    file_vector,           \* self.file_vector
    conversation_history,  \* self.conversation_history
    conversation_tokens,   \* self.conversation_tokens
    appended,              \* history variable: every message line 149 ever appended
    pc,                    \* position of the run_chat generator: "idle" | "streaming"
    enhanced_input,        \* run_chat local
    response,              \* run_chat local: the accumulated reply
    request,               \* messages of the completion request in flight / last issued
    chunks,                \* number of stream chunks delivered in this turn
    turn,                  \* record of the current / last turn of run_chat
    last_summary,          \* record of the last direct code_summary call
    \* ---- GitHubRepoHandler ----
    chroma,                \* the ChromaDB store: collection id -> [name, live, docs]
    readme_collection,     \* self.readme_collection (a collection id)
    file_structure_collection, \* self.file_structure_collection
    upd,                   \* the update call in progress
    ret,                   \* what the last finished update call left behind
    last_query,            \* what the last query call observed
    updates                \* number of update calls started

chatVars == <<scraper, readme_vector, file_vector, conversation_history,
              conversation_tokens, appended, pc, enhanced_input, response,
              request, chunks, turn, last_summary>>
handlerVars == <<chroma, readme_collection, file_structure_collection, upd, ret,
                 last_query, updates>>
vars == <<chatVars, handlerVars>>

----------------------------------------------------------------------------
(* Bounds of the model *)

\* messages appended over the life of one session
MaxAppended == 3
\* stream chunks per turn
MaxChunks == 2
\* update calls over the life of one handler
MaxUpdates == 2

(* Program constants *)

max_model_tokens == 16000
response_token_limit == max_model_tokens \div 3
readme_top_k == 5
file_top_k == 10
files_to_scrape == 2

\* token length of the fixed text of role_prompt (lines 117-133), without its fields
RolePromptTokens == 150

----------------------------------------------------------------------------
(* Python values *)

None == [kind |-> "none"]
Str(s, tok) == [kind |-> "str", s |-> s, tok |-> tok]
List(items) == [kind |-> "list", items |-> items]
EmptyStr == Str(<<>>, 0)

\* Python truthiness of None, a str or a list
Truthy(x) ==
    CASE x.kind = "none" -> FALSE
      [] x.kind = "str" -> x.s # <<>>
      [] x.kind = "list" -> x.items # <<>>

\* `for e in x`: the elements of a list, the one-character strings of a str
Iterate(x) ==
    IF x.kind = "str"
    THEN [i \in 1..Len(x.s) |-> Str(<<x.s[i]>>, 1)]
    ELSE x.items

\* a + b on strings
Concat(a, b) == Str(a.s \o b.s, a.tok + b.tok)

RECURSIVE Join(_, _)
\* sep.join(texts)
Join(sep, texts) ==
    IF texts = <<>> THEN EmptyStr
    ELSE IF Len(texts) = 1 THEN texts[1]
    ELSE Concat(Concat(texts[1], sep), Join(sep, Tail(texts)))

Newline == Str(<<"\n">>, 1)
Comma == Str(<<",">>, 1)

FilesNotFound ==
    Str(<<"F","i","l","e","s"," ","n","o","t"," ","f","o","u","n","d",".">>, 4)
ReadmeNotFound ==
    Str(<<"R","e","a","d","m","e"," ","n","o","t"," ","f","o","u","n","d",".">>, 4)
CodeNotFound ==
    Str(<<"C","o","d","e"," ","n","o","t"," ","f","o","u","n","d",".">>, 4)

----------------------------------------------------------------------------
(* The repository collaborator (gitHubScraper) *)

\* s is always a flat sequence of strings, so that any two texts compare
Path(n) == Str(<<"src/", n, ".py">>, 5)
RepoPaths == <<Path("a"), Path("b"), Path("c")>>
ReadmeText == Str(<<"readme">>, 700)
\* raw content of a file, longer than the whole context window
CodeText(p) == Str(<<"code of ">> \o p.s, 20000)

\* the repositories a session may be opened on: nothing to fetch (missing, or
\* empty), a README without files, a README with files
Scraper(readme, files) ==
    [readme |-> readme, files |-> files, has_code |-> {Path("a")}]
Scrapers ==
    {Scraper(None, None), Scraper(EmptyStr, List(<<>>)),
     Scraper(ReadmeText, List(<<>>)), Scraper(ReadmeText, List(RepoPaths))}

get_readme == scraper.readme
get_file_paths == scraper.files
get_file_raw(file_path) ==
    IF file_path \in scraper.has_code THEN CodeText(file_path) ELSE None

----------------------------------------------------------------------------
(* ChatRover: index construction *)

\* CharacterTextSplitter(chunk_size=3000, chunk_overlap=200).split_text(data) for a
\* text shorter than one chunk and without the "\n\n" separator: the text itself,
\* as the only chunk (every readme of Scrapers and the sentinel are such texts)
split_text(data) == <<data>>

\* lines 45-56; FAISS.from_documents keeps the documents in the order given
create_file_vector ==
    LET files0 == get_file_paths
        files == IF ~Truthy(files0) THEN FilesNotFound ELSE files0
    IN  Iterate(files)

\* lines 59-71
create_readme_vector ==
    LET data0 == get_readme
        data == IF ~Truthy(data0) THEN ReadmeNotFound ELSE data0
    IN  split_text(data)

\* vectorstore.similarity_search(query, k): the min(k, n) stored documents nearest
\* to the query, nearest first.  The embedding is outside the repository: a query
\* lands at position `near` of the insertion order, distance is the distance of
\* positions, and ties go to the document inserted first.
RankKey(i, near) ==
    IF i >= near THEN 2 * (i - near) + (IF i > near THEN 1 ELSE 0)
    ELSE 2 * (near - i)
similarity_search(store, near, k) ==
    LET n == Len(store)
        m == IF k < n THEN k ELSE n
        pos(i) == Cardinality({j \in 1..n : RankKey(j, near) < RankKey(i, near)}) + 1
    IN  [r \in 1..m |-> store[CHOOSE i \in 1..n : pos(i) = r]]

----------------------------------------------------------------------------
(* ChatRover: token accounting *)

\* lines 144-145
token_count(text) == text.tok

\* lines 137-142: the text of the first token_limit tokens
trim(text, token_limit) ==
    IF token_count(text) > token_limit
    THEN Str(<<"first tokens of ">> \o text.s, token_limit)
    ELSE text

----------------------------------------------------------------------------
(* ChatRover: per-file summary *)

\* chain.invoke(...).content: the model's answer, one completion call
Summary(code, query) == Str(<<"summary of ">> \o code.s, 200)

code_summary_always_invokes(file_path, query) ==
    LET code == get_file_raw(file_path)
        text == IF Truthy(code) THEN trim(code, max_model_tokens) ELSE EmptyStr
    IN  [res |-> Summary(text, query), calls |-> 1]

\* lines 75-96: the returned text and the number of completion calls issued
code_summary(file_path, query) ==
    LET code == get_file_raw(file_path)
    IN  IF Truthy(code)
        THEN [res |-> Summary(trim(code, max_model_tokens), query), calls |-> 1]
        ELSE [res |-> CodeNotFound, calls |-> 0]

----------------------------------------------------------------------------
(* ChatRover: context assembly *)

RECURSIVE scrape(_, _, _)
\* lines 109-115, from index i (1-based) on: the text added to content_response,
\* the completion calls issued and the file paths summarised
scrape(file_query, query, i) ==
    IF i <= Len(file_query) /\ i <= files_to_scrape
    THEN LET file_path == file_query[i]
             summary == code_summary(file_path, query)
             rest == scrape(file_query, query, i + 1)
             entry == Str(<<"File: ">> \o file_path.s \o <<"\n", "Summary: ">>
                              \o summary.res.s \o <<"\n">>,
                          4 + file_path.tok + summary.res.tok)
         IN  [text |-> Concat(entry, rest.text),
              calls |-> summary.calls + rest.calls,
              files |-> <<file_path>> \o rest.files]
    ELSE [text |-> EmptyStr, calls |-> 0, files |-> <<>>]

\* lines 99-134: the prompt, with the completion calls issued on the way
retrieve_context(query, near) ==
    LET readme_query == similarity_search(readme_vector, near, readme_top_k)
        file_query == similarity_search(file_vector, near, file_top_k)
        readme_string == Join(Newline, readme_query)
        file_string == Join(Comma, file_query)
        readme_response == trim(readme_string, response_token_limit)
        file_response == trim(file_string, response_token_limit)
        content == scrape(file_query, query, 1)
    IN  [prompt |-> Str(<<"README.md portion: ">> \o readme_response.s
                          \o <<"file structure: ">> \o file_response.s
                          \o <<"Summary of file contents: ">> \o content.text.s
                          \o <<"User query: ">> \o query.s,
                        RolePromptTokens + readme_response.tok + file_response.tok
                          + content.text.tok + query.tok),
         calls |-> content.calls,
         files |-> content.files]

----------------------------------------------------------------------------
(* ChatRover: the conversation window.  A window w is                      *)
(* [history, tokens, appended]: the two fields of the object and the       *)
(* history variable.                                                       *)

Message(role, content) == [role |-> role, content |-> content]

loop_cond_keep_last(w) == w.tokens > max_model_tokens /\ Len(w.history) > 1

\* line 152: the condition of the while loop
loop_cond(w) == w.tokens > max_model_tokens /\ w.history # <<>>

evict_step_no_subtract(w) == [w EXCEPT !.history = Tail(@)]

evict_step_pop_last(w) ==
    [w EXCEPT !.history = SubSeq(@, 1, Len(@) - 1),
              !.tokens = @ - token_count(w.history[Len(w.history)].content)]

\* lines 153-154: pop(0) and subtract its token count
evict_step(w) ==
    [w EXCEPT !.history = Tail(@),
              !.tokens = @ - token_count(Head(w.history).content)]

enforce_budget_once(w) == IF loop_cond(w) THEN evict_step(w) ELSE w

RECURSIVE enforce_budget(_)
\* lines 152-154: the while loop
enforce_budget(w) == IF loop_cond(w) THEN enforce_budget(evict_step(w)) ELSE w

\* lines 149-150
append(w, role, content) ==
    [history |-> Append(w.history, Message(role, content)),
     tokens |-> w.tokens + token_count(content),
     appended |-> Append(w.appended, Message(role, content))]

update_history_evict_first(w, role, content) ==
    append(enforce_budget(w), role, content)

\* lines 148-154
update_history(w, role, content) == enforce_budget(append(w, role, content))

----------------------------------------------------------------------------
(* ChatRover: run_chat, between the points where the generator is suspended *)

run_chat_end_unless_empty(w, reply) ==
    IF Truthy(reply) THEN update_history(w, "assistant", reply) ELSE w

\* line 176, reached when the stream is exhausted
run_chat_end(w, reply) == update_history(w, "assistant", reply)

\* lines 159-161
run_chat_begin(w, user_input, near) ==
    LET ctx == retrieve_context(user_input, near)
    IN  [w |-> update_history(w, "user", ctx.prompt),
         enhanced_input |-> ctx.prompt,
         calls |-> ctx.calls,
         files |-> ctx.files]

\* lines 171-174: one chunk of the stream
on_chunk(reply, content) ==
    IF content.kind # "none" THEN Concat(reply, content) ELSE reply

----------------------------------------------------------------------------
(* ChatRover: the state machine *)

Window ==
    [history |-> conversation_history, tokens |-> conversation_tokens,
     appended |-> appended]

\* what the caller may type, by token length
UserInputs == {Str(<<"short query">>, 3), Str(<<"huge query">>, 16001)}
\* contents of direct update_history calls
Contents == {Str(<<"note">>, 1), Str(<<"essay">>, 9000), Str(<<"dump">>, 16001)}
Roles == {"system"}
\* delta.content of a stream chunk
Deltas == {None, Str(<<"page">>, 9000)}
\* where a query may land among the stored documents
Nears == {1, 3}
SummaryPaths == {Path("a"), Path("missing")}

NoTurn == [status |-> "none", start |-> 0, end |-> 0, calls |-> 0, files |-> <<>>]
NoSummary == [called |-> FALSE, file_path |-> EmptyStr, res |-> EmptyStr, calls |-> 0]

\* lines 21-42: the object after __init__
InitChat ==
    /\ scraper \in Scrapers
    /\ readme_vector = create_readme_vector
    /\ file_vector = create_file_vector
    /\ conversation_history = <<>>
    /\ conversation_tokens = 0
    /\ appended = <<>>
    /\ pc = "idle"
    /\ enhanced_input = EmptyStr
    /\ response = EmptyStr
    /\ request = <<>>
    /\ chunks = 0
    /\ turn = NoTurn
    /\ last_summary = NoSummary

SetWindow(w) ==
    /\ conversation_history' = w.history
    /\ conversation_tokens' = w.tokens
    /\ appended' = w.appended

\* a direct call of update_history(role, content)
UpdateHistory ==
    /\ pc = "idle"
    /\ Len(appended) < MaxAppended
    /\ \E role \in Roles, content \in Contents :
          SetWindow(update_history(Window, role, content))
    /\ UNCHANGED <<scraper, readme_vector, file_vector, pc, enhanced_input,
                   response, request, chunks, turn, last_summary, handlerVars>>

\* a direct call of code_summary(file_path, query)
CodeSummary ==
    /\ pc = "idle"
    /\ \E file_path \in SummaryPaths, query \in {Str(<<"short query">>, 3)} :
          LET r == code_summary(file_path, query)
          IN  last_summary' = [called |-> TRUE, file_path |-> file_path,
                               res |-> r.res, calls |-> r.calls]
    /\ UNCHANGED <<scraper, readme_vector, file_vector, conversation_history,
                   conversation_tokens, appended, pc, enhanced_input, response,
                   request, chunks, turn, handlerVars>>

\* run_chat up to the first suspension: lines 159-169, the completion request
\* issued over self.conversation_history
RunChatBegin ==
    /\ pc = "idle"
    /\ Len(appended) + 2 <= MaxAppended
    /\ \E user_input \in UserInputs, near \in Nears :
          LET b == run_chat_begin(Window, user_input, near)
          IN  /\ SetWindow(b.w)
              /\ enhanced_input' = b.enhanced_input
              /\ request' = b.w.history
              /\ turn' = [status |-> "streaming", start |-> Len(appended),
                          end |-> 0, calls |-> b.calls + 1, files |-> b.files]
    /\ response' = EmptyStr
    /\ chunks' = 0
    /\ pc' = "streaming"
    /\ UNCHANGED <<scraper, readme_vector, file_vector, last_summary, handlerVars>>

\* lines 170-174: the stream delivers one chunk
StreamChunk ==
    /\ pc = "streaming"
    /\ chunks < MaxChunks
    /\ \E content \in Deltas : response' = on_chunk(response, content)
    /\ chunks' = chunks + 1
    /\ UNCHANGED <<scraper, readme_vector, file_vector, conversation_history,
                   conversation_tokens, appended, pc, enhanced_input, request,
                   turn, last_summary, handlerVars>>

\* line 176: the stream ends and the generator runs to its end
StreamEnd ==
    /\ pc = "streaming"
    /\ LET w == run_chat_end(Window, response)
       IN  /\ SetWindow(w)
           /\ turn' = [turn EXCEPT !.status = "completed",
                                   !.end = Len(w.appended)]
    /\ pc' = "idle"
    /\ UNCHANGED <<scraper, readme_vector, file_vector, enhanced_input, response,
                   request, chunks, last_summary, handlerVars>>

\* the caller drops the generator before the stream is exhausted: line 176
\* is never reached
Abandon ==
    /\ pc = "streaming"
    /\ turn' = [turn EXCEPT !.status = "abandoned"]
    /\ pc' = "idle"
    /\ UNCHANGED <<scraper, readme_vector, file_vector, conversation_history,
                   conversation_tokens, appended, enhanced_input, response,
                   request, chunks, last_summary, handlerVars>>

----------------------------------------------------------------------------
(* GitHubRepoHandler: the ChromaDB store.  A store is a sequence of         *)
(* collections [name, live, docs], a collection's id being its index; a    *)
(* Collection object held by the handler is such an id.  An operation      *)
(* through the id of a deleted collection raises.                          *)

batch_size == 75
metadata_batch_size == 15
n_results == 5

Min(a, b) == IF a < b THEN a ELSE b

Live(store, name) == {c \in 1..Len(store) : store[c].live /\ store[c].name = name}

\* chroma_client.delete_collection(name); raises when there is none
delete_collection(store, name) ==
    IF Live(store, name) = {}
    THEN [ok |-> FALSE, store |-> store]
    ELSE [ok |-> TRUE,
          store |-> [c \in 1..Len(store) |->
                        IF c \in Live(store, name)
                        THEN [store[c] EXCEPT !.live = FALSE]
                        ELSE store[c]]]

\* chroma_client.create_collection(name); raises when there is one already
create_collection(store, name) ==
    IF Live(store, name) # {}
    THEN [ok |-> FALSE, store |-> store, collection |-> 0]
    ELSE [ok |-> TRUE,
          store |-> Append(store, [name |-> name, live |-> TRUE, docs |-> <<>>]),
          collection |-> Len(store) + 1]

\* chroma_client.get_or_create_collection(name)
get_or_create_collection(store, name) ==
    IF Live(store, name) # {}
    THEN [store |-> store, collection |-> CHOOSE c \in Live(store, name) : TRUE]
    ELSE [store |-> Append(store, [name |-> name, live |-> TRUE, docs |-> <<>>]),
          collection |-> Len(store) + 1]

\* collection.add(documents, metadatas, ids)
collection_add(store, collection, docs) ==
    IF store[collection].live
    THEN [ok |-> TRUE,
          store |-> [store EXCEPT ![collection].docs = @ \o docs]]
    ELSE [ok |-> FALSE, store |-> store]

\* lines 98-114: the documents of the batch that starts at batch_start (0-based)
batch_documents(file_paths, batch_start) ==
    LET batch_end == Min(batch_start + batch_size, Len(file_paths))
        batch_file_paths == SubSeq(file_paths, batch_start + 1, batch_end)
        metas == (Len(batch_file_paths) + metadata_batch_size - 1)
                     \div metadata_batch_size
    IN  [k \in 1..metas |->
            LET meta_index == k - 1
                meta_start == meta_index * metadata_batch_size
                meta_end == Min(meta_start + metadata_batch_size,
                                Len(batch_file_paths))
                metadata_file_paths ==
                    SubSeq(batch_file_paths, meta_start + 1, meta_end)
            IN  [id |-> <<"batch_", batch_start \div batch_size,
                          "_doc_", meta_index>>,
                 document |-> <<"Batch_", batch_start \div batch_size + 1,
                                "_Doc_", meta_index + 1>>,
                 metadata |-> Join(Newline, metadata_file_paths)]]

RECURSIVE all_documents(_, _)
\* lines 97-117: every document update_file_structure adds, from batch_start on
all_documents(file_paths, batch_start) ==
    IF batch_start < Len(file_paths)
    THEN batch_documents(file_paths, batch_start)
            \o all_documents(file_paths, batch_start + batch_size)
    ELSE <<>>

\* lines 141-144: the one document of the README
readme_document(readme_content) ==
    <<[id |-> <<"single_readme">>, document |-> readme_content, metadata |-> None]>>

----------------------------------------------------------------------------
(* GitHubRepoHandler: the state machine *)

\* file path lists by length: none, one document, two batches
PathCounts == {0, 1, 76}
FilePaths(version, n) ==
    [i \in 1..n |-> Str(<<"v", ToString(version), "/file", ToString(i)>>, 4)]
ReadmeContents == {Str(<<"readme, first edition">>, 700)}

Idle == [op |-> "none", pc |-> "none", file_paths |-> <<>>,
         readme_content |-> EmptyStr, batch_start |-> 0,
         old_docs |-> <<>>, old_handle |-> 0]
NoReturn == [op |-> "none", status |-> "none", readme_content |-> EmptyStr,
             old_docs |-> <<>>, old_handle |-> 0]
NoQuery == [op |-> "none", status |-> "none", during |-> "none",
            corpus |-> <<>>, hits |-> <<>>, old_docs |-> <<>>, new_docs |-> <<>>]

\* what the file-structure handle shows: the documents of its collection
Docs(collection) == IF chroma[collection].live THEN chroma[collection].docs ELSE <<>>

\* lines 6-15: the handler after __init__ on an empty chroma_data directory
InitHandler ==
    /\ chroma = <<[name |-> "readme", live |-> TRUE, docs |-> <<>>],
                  [name |-> "file_structures", live |-> TRUE, docs |-> <<>>]>>
    /\ readme_collection = 1
    /\ file_structure_collection = 2
    /\ upd = Idle
    /\ ret = NoReturn
    /\ last_query = NoQuery
    /\ updates = 0

Returned(u, status) ==
    [op |-> u.op, status |-> status, readme_content |-> u.readme_content,
     old_docs |-> u.old_docs, old_handle |-> u.old_handle]

\* the call in progress ends: it returns, or its ChromaDB call raised
Return(status) ==
    /\ ret' = Returned(upd, status)
    /\ upd' = Idle

\* update_file_structure(file_paths) is called: line 94
UpdateFileStructureDelete ==
    /\ upd.op = "none"
    /\ updates < MaxUpdates
    /\ updates' = updates + 1
    /\ \E n \in PathCounts :
          LET d == delete_collection(chroma, "file_structures")
              u == [op |-> "update_file_structure", pc |-> "create",
                    file_paths |-> FilePaths(updates + 1, n),
                    readme_content |-> EmptyStr, batch_start |-> 0,
                    old_docs |-> Docs(file_structure_collection),
                    old_handle |-> file_structure_collection]
          IN  /\ chroma' = d.store
              /\ upd' = IF d.ok THEN u ELSE Idle
              /\ ret' = IF d.ok THEN NoReturn ELSE Returned(u, "raised")
    /\ UNCHANGED <<readme_collection, file_structure_collection, last_query, chatVars>>

\* line 95; with no file path the loop of line 97 is empty and the call returns
UpdateFileStructureCreate ==
    /\ upd.op = "update_file_structure" /\ upd.pc = "create"
    /\ LET c == create_collection(chroma, "file_structures")
       IN  /\ chroma' = c.store
           /\ IF ~c.ok
              THEN Return("raised") /\ UNCHANGED file_structure_collection
              ELSE /\ file_structure_collection' = c.collection
                   /\ IF Len(upd.file_paths) = 0
                      THEN Return("returned")
                      ELSE upd' = [upd EXCEPT !.pc = "add"] /\ UNCHANGED ret
    /\ UNCHANGED <<readme_collection, last_query, updates, chatVars>>

\* lines 97-117, one iteration: one batch is added; after the last one the
\* call returns
UpdateFileStructureAdd ==
    /\ upd.op = "update_file_structure" /\ upd.pc = "add"
    /\ LET a == collection_add(chroma, file_structure_collection,
                               batch_documents(upd.file_paths, upd.batch_start))
           next_start == upd.batch_start + batch_size
       IN  /\ chroma' = a.store
           /\ IF ~a.ok THEN Return("raised")
              ELSE IF next_start < Len(upd.file_paths)
              THEN upd' = [upd EXCEPT !.batch_start = next_start] /\ UNCHANGED ret
              ELSE Return("returned")
    /\ UNCHANGED <<readme_collection, file_structure_collection, last_query,
                   updates, chatVars>>

\* update_readme(readme_content) is called: line 138
UpdateReadmeDelete ==
    /\ upd.op = "none"
    /\ updates < MaxUpdates
    /\ updates' = updates + 1
    /\ \E readme_content \in ReadmeContents :
          LET d == delete_collection(chroma, "readme")
              u == [op |-> "update_readme", pc |-> "create",
                    file_paths |-> <<>>,
                    readme_content |-> readme_content, batch_start |-> 0,
                    old_docs |-> Docs(file_structure_collection),
                    old_handle |-> file_structure_collection]
          IN  /\ chroma' = d.store
              /\ upd' = IF d.ok THEN u ELSE Idle
              /\ ret' = IF d.ok THEN NoReturn ELSE Returned(u, "raised")
    /\ UNCHANGED <<readme_collection, file_structure_collection, last_query, chatVars>>

\* line 139: the new "readme" collection is assigned to
\* self.file_structure_collection
UpdateReadmeCreate ==
    /\ upd.op = "update_readme" /\ upd.pc = "create"
    /\ LET c == create_collection(chroma, "readme")
       IN  /\ chroma' = c.store
           /\ IF ~c.ok
              THEN Return("raised") /\ UNCHANGED file_structure_collection
              ELSE /\ file_structure_collection' = c.collection
                   /\ upd' = [upd EXCEPT !.pc = "add"]
                   /\ UNCHANGED ret
    /\ UNCHANGED <<readme_collection, last_query, updates, chatVars>>

\* lines 141-145: self.readme_collection.add(...) and the return
UpdateReadmeAdd ==
    /\ upd.op = "update_readme" /\ upd.pc = "add"
    /\ LET a == collection_add(chroma, readme_collection,
                               readme_document(upd.readme_content))
       IN  /\ chroma' = a.store
           /\ Return(IF a.ok THEN "returned" ELSE "raised")
    /\ UNCHANGED <<readme_collection, file_structure_collection, last_query,
                   updates, chatVars>>

\* what a query through `collection` observes: the documents it is answered
\* from and the n nearest of them
Observe(op, collection, near, n) ==
    [op |-> op,
     status |-> IF chroma[collection].live THEN "ok" ELSE "error",
     during |-> upd.op,
     corpus |-> Docs(collection),
     hits |-> similarity_search(Docs(collection), near, n),
     old_docs |-> upd.old_docs,
     new_docs |-> all_documents(upd.file_paths, 0)]

\* lines 122-130, at any moment, also between the ChromaDB calls of an update
QueryFileStructure ==
    /\ \E near \in Nears :
          last_query' = Observe("query_file_structure",
                                file_structure_collection, near, n_results)
    /\ UNCHANGED <<chroma, readme_collection, file_structure_collection, upd,
                   ret, updates, chatVars>>

\* lines 147-156; Collection.query is given a `filter` keyword, which a
\* ChromaDB whose query has no such parameter rejects before it reads anything
QueryReadme ==
    /\ \E near \in Nears, accepted \in BOOLEAN :
          LET seen == Observe("query_readme", readme_collection, near, 1)
          IN  last_query' =
                 IF accepted THEN seen
                 ELSE [seen EXCEPT !.status = "error", !.hits = <<>>]
    /\ UNCHANGED <<chroma, readme_collection, file_structure_collection, upd,
                   ret, updates, chatVars>>

\* lines 6-15 again: a new handler object on the same chroma_data directory
Reopen ==
    /\ upd.op = "none"
    /\ LET r == get_or_create_collection(chroma, "readme")
           f == get_or_create_collection(r.store, "file_structures")
       IN  /\ chroma' = f.store
           /\ readme_collection' = r.collection
           /\ file_structure_collection' = f.collection
    /\ ret' = NoReturn
    /\ last_query' = NoQuery
    /\ UNCHANGED <<upd, updates, chatVars>>

NextHandler ==
    \/ UpdateFileStructureDelete
    \/ UpdateFileStructureCreate
    \/ UpdateFileStructureAdd
    \/ UpdateReadmeDelete
    \/ UpdateReadmeCreate
    \/ UpdateReadmeAdd
    \/ QueryFileStructure
    \/ QueryReadme
    \/ Reopen

Init == InitChat /\ InitHandler

NextChat ==
    \/ UpdateHistory
    \/ CodeSummary
    \/ RunChatBegin
    \/ StreamChunk
    \/ StreamEnd
    \/ Abandon

SpecChat == Init /\ [][NextChat]_vars

\* the handler next to one chat session that is left alone
HandlerInit ==
    /\ InitHandler
    /\ InitChat
    /\ scraper = Scraper(ReadmeText, List(RepoPaths))

SpecHandler == HandlerInit /\ [][NextHandler]_vars

----------------------------------------------------------------------------
(* Properties of the chat session (checked under SpecChat) *)

RECURSIVE SumTokens(_)
SumTokens(messages) ==
    IF messages = <<>> THEN 0
    ELSE token_count(Head(messages).content) + SumTokens(Tail(messages))

LastAppended == appended[Len(appended)]
Evicted == Len(appended) - Len(conversation_history)
Missing(file_path) == ~Truthy(get_file_raw(file_path))

\* C1: after every update_history call the window holds at most
\* max_model_tokens tokens, or at most one message.
C1_WindowInvariant ==
    conversation_tokens <= max_model_tokens \/ Len(conversation_history) <= 1

\* a message larger than the whole budget was appended and the pass ended
C1_Witness ==
    /\ appended # <<>>
    /\ token_count(LastAppended.content) > max_model_tokens
    /\ Evicted >= 2

RECURSIVE SumAtEveryStep(_)
\* the counter of window w is the sum of its messages, and stays so after each
\* iteration of the eviction loop run on w
SumAtEveryStep(w) ==
    /\ w.tokens = SumTokens(w.history)
    /\ loop_cond(w) => SumAtEveryStep(evict_step(w))

\* C2: the running counter equals the sum of the token counts of the messages
\* currently held (0 for an empty history): between calls, and inside any
\* update_history call after its append and after each of its evictions.
C2_CounterIsSum ==
    /\ conversation_tokens = SumTokens(conversation_history)
    /\ \A role \in Roles, content \in Contents :
          SumAtEveryStep(append(Window, role, content))

\* messages were evicted and others retained
C2_Witness == Evicted >= 1 /\ Len(conversation_history) >= 2

\* C3: eviction is first-in first-out: the retained history is the suffix, in
\* the original order, of the sequence of all messages ever appended.
C3_FifoSuffix ==
    /\ Len(conversation_history) <= Len(appended)
    /\ conversation_history =
          SubSeq(appended, Evicted + 1, Len(appended))

\* an eviction that left two messages of different roles and sizes behind
C3_Witness ==
    /\ Evicted >= 1
    /\ Len(conversation_history) >= 2
    /\ conversation_history[1].role # conversation_history[2].role
    /\ token_count(conversation_history[1].content)
          > token_count(conversation_history[2].content)

\* C4: the token total is within the budget whenever the window is used:
\* the messages of every completion request, and the window between calls
\* (so also after the assistant reply was appended), hold at most
\* max_model_tokens tokens.
C4_BudgetRestored ==
    /\ SumTokens(request) <= max_model_tokens
    /\ conversation_tokens <= max_model_tokens

\* a turn whose prompt and whose reply are each larger than the budget
C4_Witness ==
    /\ turn.status = "completed"
    /\ token_count(enhanced_input) > max_model_tokens
    /\ token_count(response) > max_model_tokens

\* C5: a turn appends the user message holding the enhanced prompt first and,
\* once the stream has ended, the assistant message holding the accumulated
\* reply: exactly these two, in this order.
C5_TurnAppendsTwo ==
    /\ turn.status = "streaming" =>
          /\ Len(appended) = turn.start + 1
          /\ appended[turn.start + 1] = Message("user", enhanced_input)
    /\ turn.status = "completed" =>
          /\ turn.end = turn.start + 2
          /\ appended[turn.start + 1] = Message("user", enhanced_input)
          /\ appended[turn.start + 2] = Message("assistant", response)

\* a completed turn that started on a one-message history
C5_Witness ==
    /\ turn.status = "completed"
    /\ turn.start = 1
    /\ Len(appended) = 3

\* C6: when the collaborator returns empty or missing data, each index is built
\* from its single sentinel document.
C6_SentinelDocuments ==
    /\ ~Truthy(scraper.readme) => readme_vector = <<ReadmeNotFound>>
    /\ ~Truthy(scraper.files) => file_vector = <<FilesNotFound>>

\* C7: code_summary of a path without content returns "Code not found." and
\* issues no completion call; a turn whose summarised files are all without
\* content issues exactly one completion call.
C7_SummarizerMiss ==
    /\ (last_summary.called /\ Missing(last_summary.file_path)) =>
          (last_summary.res = CodeNotFound /\ last_summary.calls = 0)
    /\ (turn.status # "none"
          /\ \A i \in 1..Len(turn.files) : Missing(turn.files[i])) =>
          turn.calls = 1

\* a direct miss, and a turn whose two summarised files are both missing
C7_Witness ==
    /\ last_summary.called
    /\ Missing(last_summary.file_path)
    /\ turn.status = "completed"
    /\ Len(turn.files) = files_to_scrape
    /\ \A i \in 1..Len(turn.files) : Missing(turn.files[i])
    /\ turn.files[1] \in {RepoPaths[i] : i \in 1..Len(RepoPaths)}

----------------------------------------------------------------------------
(* Properties of the repository handler (checked under SpecHandler) *)

\* C8: a query that is answered while the file-structure index is being
\* rebuilt is answered from the complete old document set or from the
\* complete new one, never from an empty, partial or mixed one.
C8_AtomicRebuild ==
    (last_query.during = "update_file_structure" /\ last_query.status = "ok") =>
        \/ last_query.corpus = last_query.old_docs
        \/ last_query.corpus = last_query.new_docs

\* C10: when update_readme(content) is over it has returned, the README handle
\* is the live "readme" collection holding the one document of content, and the
\* file-structure handle and its documents are what they were before the call.
C10_ReadmeUpdateFrame ==
    ret.op = "update_readme" =>
        /\ ret.status = "returned"
        /\ chroma[readme_collection].live
        /\ chroma[readme_collection].name = "readme"
        /\ chroma[readme_collection].docs = readme_document(ret.readme_content)
        /\ file_structure_collection = ret.old_handle
        /\ chroma[file_structure_collection].live
        /\ chroma[file_structure_collection].name = "file_structures"
        /\ chroma[file_structure_collection].docs = ret.old_docs

====
